---- MODULE Spec2Model ----
(***************************************************************************)
(* Model of alexa.go: Alexa.ProcessRequest (validation, lazy session       *)
(* attribute initialisation, lifecycle callback dispatch, response         *)
(* envelope assembly) and the Response mutation helpers.                   *)
(*                                                                         *)
(* Pointers are records with an isNil field; attribute maps live in `heap` *)
(* (address -> map) so that aliasing of two map references is observable.  *)
(* Time is counted in ticks of 1/TicksPerSecond second.                    *)
(***************************************************************************)
EXTENDS Integers, Sequences, FiniteSets, TLC

VARIABLES
    alexa,              \* the Alexa struct: ApplicationID, IgnoreApplicationID, IgnoreTimestamp
    timestampTolerance, \* package variable timestampTolerance (seconds)
    now,                \* reading of time.Now() (ticks)
    requestEnv,         \* the caller's *RequestEnvelope, with its Session and Request objects
    heap,               \* attribute maps: address -> [keys -> values]
    responseEnv,        \* the *ResponseEnvelope built by ProcessRequest (Version, SessionAttributes)
    response,           \* the *Response object handed to callbacks / used by helper callers
    result,             \* what ProcessRequest returned: [env, err]
    pc,                 \* "idle", "inCallback", "returned", "panicked", "standalone"
    cur,                \* the lifecycle callback currently running
    calls,              \* lifecycle callbacks invoked so far, in order
    rets,               \* what the callbacks that returned have returned, in order
    flagSet,            \* per callback: the last value it wrote to ShouldEndSession, or "untouched"
    issued,             \* AddAudioPlayer / AddDialogDirective calls made on `response`, in order
    helperCalls,        \* number of helper / handler statements executed so far
    callerOps           \* number of caller statements executed after ProcessRequest returned

vars == <<alexa, timestampTolerance, now, requestEnv, heap, responseEnv, response,
          result, pc, cur, calls, rets, flagSet, issued, helperCalls, callerOps>>

----
\* Bounds of the model

\* ticks per second: request timestamps and the clock have sub-second resolution
TicksPerSecond == 2
\* statements a handler executes during one ProcessRequest
MaxCallbackOps == 2
\* helper calls made on a stand-alone Response
MaxHelperCalls == 3
\* statements the caller executes on the two maps after ProcessRequest returned
MaxCallerOps == 1
\* how far (in ticks) beyond a tolerance the examined timestamps lie
SkewMargin == 2

----
\* Program constants

sdkVersion == "1.0"
launchRequestName == "LaunchRequest"
intentRequestName == "IntentRequest"
sessionEndedRequestName == "SessionEndedRequest"
DefaultTimestampTolerance == 150

ErrRequestEnvelopeNil == "request envelope was nil"
ErrAppIDEmpty == "application ID was set to an empty string"
ErrRequestAppIDEmpty == "request Application ID was set to an empty string"
ErrAppIDMismatch == "request Application ID does not match expected ApplicationId"
ErrTimestampParse == "unable to parse request timestamp"
ErrTimestampTolerance == "invalid Timestamp"
NoError == "nil"

NilPtr == [isNil |-> TRUE]
NilMap == 0

----
\* Input domains

AppIDs == {"", "app1", "app2"}
RequestTypes == {launchRequestName, intentRequestName, sessionEndedRequestName, "CanFulfillIntentRequest"}
Keys == {"k1", "k2"}
Values == {"v1", "v2"}
HandlerErrors == {"handler error 1", "handler error 2"}
Texts == {"hello"}
StreamTokens == {"s1", "s2"}
Tolerances == {0, 1, DefaultTimestampTolerance}
ZoneOffsets == {0, 3600 * TicksPerSecond}
NowTicks == {1000 * TicksPerSecond + 1}

Callbacks == {"OnSessionStarted", "OnLaunch", "OnIntent", "OnSessionEnded"}
TypeCallbacks == {"OnLaunch", "OnIntent", "OnSessionEnded"}

\* attribute maps over Keys
AttributeMaps == UNION {[D -> Values] : D \in SUBSET Keys}
EmptyMap == [n \in {} |-> "v1"]

----
\* Data model

\* Session struct (the fields ProcessRequest reads or writes)
Session(new, appID, attrs) ==
    [isNil |-> FALSE, New |-> new, ApplicationID |-> appID, Attributes |-> attrs]

\* Request struct: Timestamp is the RFC3339 text, Type the request type
Request(timestamp, type) ==
    [isNil |-> FALSE, Timestamp |-> timestamp, Type |-> type]

\* RequestEnvelope struct
RequestEnvelope(session, request) ==
    [isNil |-> FALSE, Session |-> session, Request |-> request]

\* An RFC3339 text: a local wall time and the zone offset written after it,
\* or text that is no RFC3339 timestamp.
RFC3339Text(local, zone) == [wellFormed |-> TRUE, local |-> local, zone |-> zone]
MalformedText == [wellFormed |-> FALSE]

\* &Response{}: the zero value
ZeroResponse ==
    [OutputSpeech |-> NilPtr, Card |-> NilPtr, Reprompt |-> NilPtr,
     Directives |-> <<>>, ShouldEndSession |-> FALSE]

\* &ResponseEnvelope{}: the zero value (Response points to the `response` object)
ZeroResponseEnvelope == [isNil |-> FALSE, Version |-> "", SessionAttributes |-> NilMap]

----
\* Validation

Abs(x) == IF x < 0 THEN -x ELSE x

\* time.Parse(time.RFC3339, text): the instant denoted, or an error
ParseRFC3339(text) ==
    IF text.wellFormed
    THEN [err |-> NoError, instant |-> text.local - text.zone]
    ELSE [err |-> ErrTimestampParse, instant |-> 0]


\* verifyApplicationID without its two checks for an empty identifier
verifyApplicationIDNoEmptyCheck(a, request) ==
    IF request.isNil THEN ErrRequestEnvelopeNil
    ELSE IF request.Session.isNil THEN "panic"
    ELSE IF a.ApplicationID # request.Session.ApplicationID THEN ErrAppIDMismatch
    ELSE NoError

\* verifyApplicationID: NoError, an error, or "panic" (nil pointer dereference)
verifyApplicationID(a, request) ==
    IF request.isNil THEN ErrRequestEnvelopeNil
    ELSE IF request.Session.isNil THEN "panic"
    ELSE LET appID == a.ApplicationID
             requestAppID == request.Session.ApplicationID
         IN  IF appID = "" THEN ErrAppIDEmpty
             ELSE IF requestAppID = "" THEN ErrRequestAppIDEmpty
             ELSE IF appID # requestAppID THEN ErrAppIDMismatch
             ELSE NoError


\* verifyTimestamp rejecting a difference equal to the tolerance
verifyTimestampInclusive(request, clock, tolerance) ==
    IF request.isNil THEN ErrRequestEnvelopeNil
    ELSE IF request.Request.isNil THEN "panic"
    ELSE LET parsed == ParseRFC3339(request.Request.Timestamp)
         IN  IF parsed.err # NoError THEN parsed.err
             ELSE IF Abs(clock - parsed.instant) >= tolerance * TicksPerSecond
                  THEN ErrTimestampTolerance
             ELSE NoError

\* verifyTimestamp: NoError, an error, or "panic" (nil pointer dereference).
\* delta.Seconds() is compared as a fraction: |delta| / TicksPerSecond > tolerance.
verifyTimestamp(request, clock, tolerance) ==
    IF request.isNil THEN ErrRequestEnvelopeNil
    ELSE IF request.Request.isNil THEN "panic"
    ELSE LET parsed == ParseRFC3339(request.Request.Timestamp)
             delta == clock - parsed.instant
             deltaTicksAbs == Abs(delta)
         IN  IF parsed.err # NoError THEN parsed.err
             ELSE IF deltaTicksAbs > tolerance * TicksPerSecond THEN ErrTimestampTolerance
             ELSE NoError

\* SetTimestampTolerance
SetTimestampTolerance(seconds) ==
    /\ pc = "idle"
    /\ timestampTolerance' = seconds
    /\ UNCHANGED <<alexa, now, requestEnv, heap, responseEnv, response, result, pc, cur,
                   calls, rets, flagSet, issued, helperCalls, callerOps>>

----
\* Attribute maps

\* m[k] = v on a Go map
MapSet(m, k, v) == [n \in DOMAIN m \cup {k} |-> IF n = k THEN v ELSE m[n]]

\* delete(m, k) on a Go map
MapDelete(m, k) == [n \in DOMAIN m \ {k} |-> m[n]]

\* make(map[string]interface{}): a fresh address holding the empty map
Make(hp) ==
    LET a == CHOOSE x \in 1..(Cardinality(DOMAIN hp) + 1) : x \notin DOMAIN hp
    IN  [addr |-> a, heap |-> (a :> EmptyMap) @@ hp]


\* ProcessRequest without the nil check of session.Attributes
EnsureAttributesSkipped(session, hp) == [session |-> session, heap |-> hp]

\* session.Attributes after the nil check of ProcessRequest
EnsureAttributes(session, hp) ==
    IF session.Attributes = NilMap
    THEN LET m == Make(hp)
         IN  [session |-> [session EXCEPT !.Attributes = m.addr], heap |-> m.heap]
    ELSE [session |-> session, heap |-> hp]


\* the response envelope sharing the session's map instead of copying it
CopySessionAttributesAliased(src, hp) == [addr |-> src, heap |-> hp]

\* the copy of the session attributes into a new map of the response envelope
CopySessionAttributes(src, hp) ==
    LET m == Make(hp)
        from == IF src = NilMap THEN EmptyMap ELSE hp[src]
        copied == [n \in DOMAIN from |-> from[n]]
    IN  [addr |-> m.addr, heap |-> [m.heap EXCEPT ![m.addr] = copied]]

----
\* ProcessRequest

NoResult == [env |-> "none", err |-> "none"]

\* ProcessRequest checking the timestamp before the application identifier
ValidateTimestampFirst(a, env, clock, tolerance) ==
    IF env.isNil THEN ErrRequestEnvelopeNil
    ELSE LET errTime == IF ~a.IgnoreTimestamp THEN verifyTimestamp(env, clock, tolerance)
                        ELSE NoError
         IN  IF errTime # NoError THEN errTime
             ELSE IF ~a.IgnoreApplicationID THEN verifyApplicationID(a, env)
             ELSE NoError

\* the checks of ProcessRequest before it touches the session:
\* NoError, the error returned, or "panic"
Validate(a, env, clock, tolerance) ==
    IF env.isNil THEN ErrRequestEnvelopeNil
    ELSE LET errApp == IF ~a.IgnoreApplicationID THEN verifyApplicationID(a, env) ELSE NoError
         IN  IF errApp # NoError THEN errApp
             ELSE IF ~a.IgnoreTimestamp THEN verifyTimestamp(env, clock, tolerance)
             ELSE NoError


\* the switch with the intent case calling OnLaunch
TypeCallbackIntentAsLaunch(type) ==
    CASE type = launchRequestName -> "OnLaunch"
      [] type = intentRequestName -> "OnLaunch"
      [] type = sessionEndedRequestName -> "OnSessionEnded"
      [] OTHER -> "none"

\* the callback the switch on Request.Type selects, "none" when no case matches
TypeCallback(type) ==
    CASE type = launchRequestName -> "OnLaunch"
      [] type = intentRequestName -> "OnIntent"
      [] type = sessionEndedRequestName -> "OnSessionEnded"
      [] OTHER -> "none"


\* ProcessRequest without the new-session stage
StartsSessionNever(session) == FALSE

\* a new session invokes OnSessionStarted
StartsSession(session) == session.New

\* ProcessRequest from the point `at` ("start": before the new-session check,
\* "switch": at the switch) up to the next callback invocation, return or panic
Continue(at, env, hp, renv, cs) ==
    IF at = "start" /\ StartsSession(env.Session)
    THEN [pc |-> "inCallback", cur |-> "OnSessionStarted", calls |-> Append(cs, "OnSessionStarted"),
          heap |-> hp, responseEnv |-> renv, result |-> NoResult]
    ELSE IF env.Request.isNil
    THEN [pc |-> "panicked", cur |-> "none", calls |-> cs,
          heap |-> hp, responseEnv |-> renv, result |-> NoResult]
    ELSE LET cb == TypeCallback(env.Request.Type)
         IN  IF cb # "none"
             THEN [pc |-> "inCallback", cur |-> cb, calls |-> Append(cs, cb),
                   heap |-> hp, responseEnv |-> renv, result |-> NoResult]
             ELSE LET c == CopySessionAttributes(env.Session.Attributes, hp)
                  IN  [pc |-> "returned", cur |-> "none", calls |-> cs, heap |-> c.heap,
                       responseEnv |-> [renv EXCEPT !.SessionAttributes = c.addr],
                       result |-> [env |-> "responseEnv", err |-> NoError]]


\* ProcessRequest going on to the switch although OnSessionStarted failed
AfterCallbackErrorDropped(err, name, env, hp, renv, cs) ==
    IF name = "OnSessionStarted"
    THEN Continue("switch", env, hp, renv, cs)
    ELSE IF err # NoError
    THEN [pc |-> "returned", cur |-> "none", calls |-> cs, heap |-> hp,
          responseEnv |-> renv, result |-> [env |-> "nil", err |-> err]]
    ELSE LET c == CopySessionAttributes(env.Session.Attributes, hp)
         IN  [pc |-> "returned", cur |-> "none", calls |-> cs, heap |-> c.heap,
              responseEnv |-> [renv EXCEPT !.SessionAttributes = c.addr],
              result |-> [env |-> "responseEnv", err |-> NoError]]

\* what ProcessRequest does when a callback returned err
AfterCallback(err, name, env, hp, renv, cs) ==
    IF err # NoError
    THEN [pc |-> "returned", cur |-> "none", calls |-> cs, heap |-> hp,
          responseEnv |-> renv, result |-> [env |-> "nil", err |-> err]]
    ELSE IF name = "OnSessionStarted"
    THEN Continue("switch", env, hp, renv, cs)
    ELSE LET c == CopySessionAttributes(env.Session.Attributes, hp)
         IN  [pc |-> "returned", cur |-> "none", calls |-> cs, heap |-> c.heap,
              responseEnv |-> [renv EXCEPT !.SessionAttributes = c.addr],
              result |-> [env |-> "responseEnv", err |-> NoError]]


\* the Response without its default for ShouldEndSession
NewResponseZero == ZeroResponse

\* the default Response ProcessRequest creates
NewResponse == [ZeroResponse EXCEPT !.ShouldEndSession = TRUE]

\* ProcessRequest, from its entry to the first callback invocation (or its return)
ProcessRequest ==
    /\ pc = "idle"
    /\ LET err == Validate(alexa, requestEnv, now, timestampTolerance)
       IN  IF err = "panic" \/ (err = NoError /\ requestEnv.Session.isNil)
           THEN /\ pc' = "panicked"
                /\ UNCHANGED <<requestEnv, heap, responseEnv, response, result, cur, calls>>
           ELSE IF err # NoError
           THEN /\ pc' = "returned"
                /\ result' = [env |-> "nil", err |-> err]
                /\ UNCHANGED <<requestEnv, heap, responseEnv, response, cur, calls>>
           ELSE LET i == EnsureAttributes(requestEnv.Session, heap)
                    env == [requestEnv EXCEPT !.Session = i.session]
                    renv == [ZeroResponseEnvelope EXCEPT !.Version = sdkVersion]
                    o == Continue("start", env, i.heap, renv, calls)
                IN  /\ requestEnv' = env
                    /\ response' = NewResponse
                    /\ heap' = o.heap
                    /\ responseEnv' = o.responseEnv
                    /\ result' = o.result
                    /\ pc' = o.pc
                    /\ cur' = o.cur
                    /\ calls' = o.calls
    /\ UNCHANGED <<alexa, timestampTolerance, now, rets, flagSet, issued, helperCalls, callerOps>>

\* the running callback returns err; ProcessRequest goes on to the next callback
\* invocation or to its return
CallbackReturns(err) ==
    /\ pc = "inCallback"
    /\ LET o == AfterCallback(err, cur, requestEnv, heap, responseEnv, calls)
       IN  /\ heap' = o.heap
           /\ responseEnv' = o.responseEnv
           /\ result' = o.result
           /\ pc' = o.pc
           /\ cur' = o.cur
           /\ calls' = o.calls
    /\ rets' = Append(rets, err)
    /\ UNCHANGED <<alexa, timestampTolerance, now, requestEnv, response, flagSet, issued,
                   helperCalls, callerOps>>

----
\* Response helpers (the receiver r is the first parameter)

OutputSpeech(type, text, ssml) == [isNil |-> FALSE, Type |-> type, Text |-> text, SSML |-> ssml]

Image(small, large) == [isNil |-> FALSE, SmallImageURL |-> small, LargeImageURL |-> large]

Card(type, title, content, text, image) ==
    [isNil |-> FALSE, Type |-> type, Title |-> title, Content |-> content, Text |-> text,
     Image |-> image]

Reprompt(speech) == [isNil |-> FALSE, OutputSpeech |-> speech]

AudioPlayerDirective(playerType, playBehavior, streamToken, url, offsetInMilliseconds) ==
    [Type |-> playerType, PlayBehavior |-> playBehavior,
     AudioItem |-> [Stream |-> [Token |-> streamToken, URL |-> url,
                                OffsetInMilliseconds |-> offsetInMilliseconds]]]

DialogDirective(dialogType, slotToElicit, slotToConfirm, intent) ==
    [Type |-> dialogType, SlotToElicit |-> slotToElicit, SlotToConfirm |-> slotToConfirm,
     UpdatedIntent |-> intent]

SetSimpleCard(r, title, content) ==
    [r EXCEPT !.Card = Card("Simple", title, content, "", NilPtr)]

SetStandardCard(r, title, text, smallImageURL, largeImageURL) ==
    [r EXCEPT !.Card = Card("Standard", title, "", text, Image(smallImageURL, largeImageURL))]

SetLinkAccountCard(r) ==
    [r EXCEPT !.Card = Card("LinkAccount", "", "", "", NilPtr)]

SetOutputSpeech(r, text) ==
    [r EXCEPT !.OutputSpeech = OutputSpeech("PlainText", text, "")]

SetOutputSSML(r, ssml) ==
    [r EXCEPT !.OutputSpeech = OutputSpeech("SSML", "", ssml)]

SetRepromptText(r, text) ==
    LET r1 == IF r.Reprompt.isNil THEN [r EXCEPT !.Reprompt = Reprompt(NilPtr)] ELSE r
    IN  [r1 EXCEPT !.Reprompt.OutputSpeech = OutputSpeech("PlainText", text, "")]

SetRepromptSSML(r, ssml) ==
    LET r1 == IF r.Reprompt.isNil THEN [r EXCEPT !.Reprompt = Reprompt(NilPtr)] ELSE r
    IN  [r1 EXCEPT !.Reprompt.OutputSpeech = OutputSpeech("SSML", "", ssml)]

SetEndSession(r, flag) ==
    [r EXCEPT !.ShouldEndSession = flag]

AddAudioPlayer(r, playerType, playBehavior, streamToken, url, offsetInMilliseconds) ==
    LET d == AudioPlayerDirective(playerType, playBehavior, streamToken, url, offsetInMilliseconds)
    IN  [r EXCEPT !.Directives = Append(r.Directives, d)]


\* AddDialogDirective assigning instead of appending
AddDialogDirectiveReplacing(r, dialogType, slotToElicit, slotToConfirm, intent) ==
    [r EXCEPT !.Directives = <<DialogDirective(dialogType, slotToElicit, slotToConfirm, intent)>>]

AddDialogDirective(r, dialogType, slotToElicit, slotToConfirm, intent) ==
    LET d == DialogDirective(dialogType, slotToElicit, slotToConfirm, intent)
    IN  [r EXCEPT !.Directives = Append(r.Directives, d)]

----
\* Code holding the *Response: a running lifecycle callback, or stand-alone code

CanCall ==
    \/ pc = "inCallback" /\ helperCalls < MaxCallbackOps
    \/ pc = "standalone" /\ helperCalls < MaxHelperCalls

\* one helper call that is neither SetEndSession nor an Add...: the response becomes r
Call(r) ==
    /\ CanCall
    /\ response' = r
    /\ helperCalls' = helperCalls + 1
    /\ UNCHANGED <<alexa, timestampTolerance, now, requestEnv, heap, responseEnv, result, pc,
                   cur, calls, rets, flagSet, issued, callerOps>>

\* response.SetEndSession(flag)
CallSetEndSession(flag) ==
    /\ CanCall
    /\ response' = SetEndSession(response, flag)
    /\ flagSet' = [flagSet EXCEPT ![cur] = IF flag THEN "true" ELSE "false"]
    /\ helperCalls' = helperCalls + 1
    /\ UNCHANGED <<alexa, timestampTolerance, now, requestEnv, heap, responseEnv, result, pc,
                   cur, calls, rets, issued, callerOps>>

\* response.AddAudioPlayer(...)
CallAddAudioPlayer(playerType, playBehavior, streamToken, url, offsetInMilliseconds) ==
    /\ CanCall
    /\ response' = AddAudioPlayer(response, playerType, playBehavior, streamToken, url,
                                  offsetInMilliseconds)
    /\ issued' = Append(issued, [call |-> "AddAudioPlayer",
                                 args |-> <<playerType, playBehavior, streamToken, url,
                                            offsetInMilliseconds>>])
    /\ helperCalls' = helperCalls + 1
    /\ UNCHANGED <<alexa, timestampTolerance, now, requestEnv, heap, responseEnv, result, pc,
                   cur, calls, rets, flagSet, callerOps>>

\* response.AddDialogDirective(...)
CallAddDialogDirective(dialogType, slotToElicit, slotToConfirm, intent) ==
    /\ CanCall
    /\ response' = AddDialogDirective(response, dialogType, slotToElicit, slotToConfirm, intent)
    /\ issued' = Append(issued, [call |-> "AddDialogDirective",
                                 args |-> <<dialogType, slotToElicit, slotToConfirm, intent>>])
    /\ helperCalls' = helperCalls + 1
    /\ UNCHANGED <<alexa, timestampTolerance, now, requestEnv, heap, responseEnv, result, pc,
                   cur, calls, rets, flagSet, callerOps>>

\* a callback executes session.Attributes[k] = v
HandlerSetsAttribute(k, v) ==
    /\ pc = "inCallback" /\ helperCalls < MaxCallbackOps
    /\ requestEnv.Session.Attributes # NilMap
    /\ heap' = [heap EXCEPT ![requestEnv.Session.Attributes] = MapSet(@, k, v)]
    /\ helperCalls' = helperCalls + 1
    /\ UNCHANGED <<alexa, timestampTolerance, now, requestEnv, responseEnv, response, result,
                   pc, cur, calls, rets, flagSet, issued, callerOps>>

\* a callback executes delete(session.Attributes, k)
HandlerDeletesAttribute(k) ==
    /\ pc = "inCallback" /\ helperCalls < MaxCallbackOps
    /\ requestEnv.Session.Attributes # NilMap
    /\ k \in DOMAIN heap[requestEnv.Session.Attributes]
    /\ heap' = [heap EXCEPT ![requestEnv.Session.Attributes] = MapDelete(@, k)]
    /\ helperCalls' = helperCalls + 1
    /\ UNCHANGED <<alexa, timestampTolerance, now, requestEnv, responseEnv, response, result,
                   pc, cur, calls, rets, flagSet, issued, callerOps>>

----
\* The caller, after ProcessRequest returned a response envelope

CallerCanAct ==
    /\ pc = "returned"
    /\ result.err = NoError
    /\ callerOps < MaxCallerOps

\* the caller writes or deletes a key of the map at address a
CallerWrites(a, m) ==
    /\ CallerCanAct
    /\ a # NilMap
    /\ m # heap[a]
    /\ heap' = [heap EXCEPT ![a] = m]
    /\ callerOps' = callerOps + 1
    /\ UNCHANGED <<alexa, timestampTolerance, now, requestEnv, responseEnv, response, result,
                   pc, cur, calls, rets, flagSet, issued, helperCalls>>

\* requestEnv.Session.Attributes[k] = v
CallerSetsSessionAttribute(k, v) ==
    CallerWrites(requestEnv.Session.Attributes,
                 MapSet(heap[requestEnv.Session.Attributes], k, v))

\* delete(requestEnv.Session.Attributes, k)
CallerDeletesSessionAttribute(k) ==
    CallerWrites(requestEnv.Session.Attributes,
                 MapDelete(heap[requestEnv.Session.Attributes], k))

\* responseEnv.SessionAttributes[k] = v
CallerSetsResponseAttribute(k, v) ==
    CallerWrites(responseEnv.SessionAttributes,
                 MapSet(heap[responseEnv.SessionAttributes], k, v))

\* delete(responseEnv.SessionAttributes, k)
CallerDeletesResponseAttribute(k) ==
    CallerWrites(responseEnv.SessionAttributes,
                 MapDelete(heap[responseEnv.SessionAttributes], k))

----
\* Initial states

\* distances (ticks) between the clock and the request timestamp: around every
\* tolerance of Tolerances, on both sides
Skews ==
    UNION {{s, -s} : s \in UNION {((t * TicksPerSecond) - SkewMargin)..((t * TicksPerSecond) + SkewMargin)
                                   : t \in Tolerances}}

\* the RFC3339 texts of the instants clock + d, d in skews, in every zone of zones,
\* and a malformed one
TimestampTexts(clock, skews, zones) ==
    {MalformedText} \cup {RFC3339Text(clock + d + z, z) : d \in skews, z \in zones}

\* the envelopes a caller passes: nil, without Session, without Request, or complete
Envelopes(apps, news, attrs, texts, types) ==
    LET sessions == {Session(n, a, attrs) : n \in news, a \in apps}
        requests == {Request(t, ty) : t \in texts, ty \in types}
    IN  {NilPtr}
        \cup {RequestEnvelope(NilPtr, r) : r \in requests}
        \cup {RequestEnvelope(se, NilPtr) : se \in sessions}
        \cup {RequestEnvelope(se, r) : se \in sessions, r \in requests}

Configs(appIDs, ignore) ==
    [ApplicationID : appIDs, IgnoreApplicationID : ignore, IgnoreTimestamp : ignore]

\* the state before ProcessRequest is called: the skill as configured, the default
\* tolerance, and one envelope with its session attributes (absent, or a map at address 1)
InitWith(configs, apps, news, maps, texts, types) ==
    /\ alexa \in configs
    /\ timestampTolerance = DefaultTimestampTolerance
    /\ now \in NowTicks
    /\ \/ /\ heap = <<>>
          /\ requestEnv \in Envelopes(apps, news, NilMap, texts, types)
       \/ /\ heap \in {(1 :> m) : m \in maps}
          /\ requestEnv \in Envelopes(apps, news, 1, texts, types)
    /\ responseEnv = NilPtr
    /\ response = ZeroResponse
    /\ result = NoResult
    /\ pc = "idle"
    /\ cur = "none"
    /\ calls = <<>>
    /\ rets = <<>>
    /\ flagSet = [c \in Callbacks \cup {"caller"} |-> "untouched"]
    /\ issued = <<>>
    /\ helperCalls = 0
    /\ callerOps = 0

\* timestamps inside and outside the default tolerance
FewTexts(clock) ==
    TimestampTexts(clock, {0, DefaultTimestampTolerance * TicksPerSecond + 1}, {0})

\* requests of every type, for new and old sessions, against a skill with both checks on
Init ==
    /\ now \in NowTicks
    /\ InitWith(Configs({"app1"}, {FALSE}), {"app1", "app2"}, BOOLEAN,
                {EmptyMap, ("k1" :> "v1")}, FewTexts(now), RequestTypes)

\* every configuration, application identifier and timestamp, for launch requests
InitValidation ==
    /\ now \in NowTicks
    /\ InitWith(Configs({"", "app1"}, BOOLEAN), AppIDs, BOOLEAN, {},
                TimestampTexts(now, Skews, ZoneOffsets), {launchRequestName})

\* stand-alone code that holds a new(Response)
InitResponse ==
    /\ alexa \in Configs({"app1"}, {FALSE})
    /\ timestampTolerance = DefaultTimestampTolerance
    /\ now \in NowTicks
    /\ heap = <<>>
    /\ requestEnv = NilPtr
    /\ responseEnv = NilPtr
    /\ response \in {ZeroResponse, NewResponse}
    /\ result = NoResult
    /\ pc = "standalone"
    /\ cur = "caller"
    /\ calls = <<>>
    /\ rets = <<>>
    /\ flagSet = [c \in Callbacks \cup {"caller"} |-> "untouched"]
    /\ issued = <<>>
    /\ helperCalls = 0
    /\ callerOps = 0

----
\* Next-state relations

HelperCall ==
    \/ \E t \in Texts : Call(SetSimpleCard(response, t, t))
    \/ \E t \in Texts : Call(SetStandardCard(response, t, t, "small.png", "large.png"))
    \/ Call(SetLinkAccountCard(response))
    \/ \E t \in Texts : Call(SetOutputSpeech(response, t))
    \/ \E t \in Texts : Call(SetOutputSSML(response, t))
    \/ \E t \in Texts : Call(SetRepromptText(response, t))
    \/ \E t \in Texts : Call(SetRepromptSSML(response, t))
    \/ \E flag \in BOOLEAN : CallSetEndSession(flag)
    \/ \E tok \in StreamTokens : CallAddAudioPlayer("AudioPlayer.Play", "ENQUEUE", tok, "url", 0)
    \/ CallAddDialogDirective("Dialog.ElicitSlot", "slot", "", NilPtr)

\* ProcessRequest with handlers that write the response and the session
\* attributes, and a caller that writes the two maps afterwards
Next ==
    \/ \E seconds \in Tolerances : SetTimestampTolerance(seconds)
    \/ ProcessRequest
    \/ \E err \in {NoError} \cup HandlerErrors : CallbackReturns(err)
    \/ HelperCall
    \/ \E k \in Keys, v \in Values : HandlerSetsAttribute(k, v)
    \/ \E k \in Keys : HandlerDeletesAttribute(k)
    \/ \E k \in Keys, v \in Values : CallerSetsSessionAttribute(k, v)
    \/ \E k \in Keys : CallerDeletesSessionAttribute(k)
    \/ \E k \in Keys, v \in Values : CallerSetsResponseAttribute(k, v)
    \/ \E k \in Keys : CallerDeletesResponseAttribute(k)

\* ProcessRequest with handlers that only return, after any setting of the tolerance
NextValidation ==
    \/ \E seconds \in Tolerances : SetTimestampTolerance(seconds)
    \/ ProcessRequest
    \/ \E err \in {NoError} \cup HandlerErrors : CallbackReturns(err)

Spec == Init /\ [][Next]_vars

SpecValidation == InitValidation /\ [][NextValidation]_vars

SpecResponse == InitResponse /\ [][HelperCall]_vars

----
\* Vocabulary of the properties

\* ProcessRequest has been called
Called == pc \in {"inCallback", "returned", "panicked"}

\* the envelope and its Session and Request are all present
Complete == ~requestEnv.isNil /\ ~requestEnv.Session.isNil /\ ~requestEnv.Request.isNil

\* the identity check is disabled or the two application identifiers are non-empty and equal
IdentityAccepted ==
    \/ alexa.IgnoreApplicationID
    \/ /\ alexa.ApplicationID # ""
       /\ alexa.ApplicationID = requestEnv.Session.ApplicationID

\* the distance in ticks between the clock and the instant a well-formed timestamp denotes
TimestampDistance ==
    LET text == requestEnv.Request.Timestamp
    IN  Abs(now - (text.local - text.zone))

\* the timestamp check is disabled or the timestamp is well formed and within tolerance
TimestampAccepted ==
    \/ alexa.IgnoreTimestamp
    \/ /\ requestEnv.Request.Timestamp.wellFormed
       /\ TimestampDistance <= timestampTolerance * TicksPerSecond

\* ProcessRequest was called with an envelope that passes validation
Validated == Called /\ Complete /\ IdentityAccepted /\ TimestampAccepted

IsTypeCallback(c) == c \in TypeCallbacks

\* the type-specific callbacks invoked so far
TypeCalls == SelectSeq(calls, IsTypeCallback)

\* the new-session stage is over: the session is not new, or OnSessionStarted returned nil
SwitchReached ==
    \/ ~requestEnv.Session.New
    \/ Len(rets) >= 1 /\ rets[1] = NoError

KnownTypes == {"LaunchRequest", "IntentRequest", "SessionEndedRequest"}

\* the callback of a known request type
CallbackOf(type) ==
    CASE type = "LaunchRequest" -> "OnLaunch"
      [] type = "IntentRequest" -> "OnIntent"
      [] type = "SessionEndedRequest" -> "OnSessionEnded"

Succeeded == pc = "returned" /\ result = [env |-> "responseEnv", err |-> NoError]

DefaultResponse ==
    /\ response.OutputSpeech = NilPtr
    /\ response.Card = NilPtr
    /\ response.ShouldEndSession = TRUE

----
\* C1 (as stated): after validation passes ProcessRequest routes by request type:
\* LaunchRequest invokes OnLaunch, IntentRequest OnIntent, SessionEndedRequest
\* OnSessionEnded, exactly one and never another type's; for any other type NO
\* callback is invoked and the default response is returned (speech and card
\* absent, ShouldEndSession true).
C1_RoutingAsStated ==
    (Validated /\ SwitchReached) =>
        LET type == requestEnv.Request.Type
        IN  IF type \in KnownTypes
            THEN TypeCalls = <<CallbackOf(type)>>
            ELSE calls = <<>> /\ Succeeded /\ DefaultResponse

C1_RoutingState ==
    (Validated /\ SwitchReached) =>
        LET type == requestEnv.Request.Type
        IN  IF type \in KnownTypes
            THEN TypeCalls = <<CallbackOf(type)>>
            ELSE /\ TypeCalls = <<>>
                 /\ Succeeded
                 /\ requestEnv.Session.New => calls = <<"OnSessionStarted">>
                 /\ ~requestEnv.Session.New => calls = <<>> /\ DefaultResponse

C1_RoutingStep ==
    (pc = "inCallback" /\ pc' = "returned") => response' = response

\* C1 (amended): after validation passes ProcessRequest routes by request type:
\* LaunchRequest invokes OnLaunch, IntentRequest OnIntent, SessionEndedRequest
\* OnSessionEnded, exactly one and never another type's; for any other type no
\* type-specific callback is invoked and the response envelope is returned: for a
\* new session OnSessionStarted has run and the response is as it left it, for a
\* session that is not new no callback ran and the response is the default one
\* (speech and card absent, ShouldEndSession true).
C1_Routing == []C1_RoutingState /\ [][C1_RoutingStep]_vars

\* an unrecognised type in a session that is not new: the default response came back
C1_Witness ==
    /\ Validated /\ Succeeded
    /\ requestEnv.Request.Type \notin KnownTypes
    /\ ~requestEnv.Session.New
    /\ DefaultResponse

----
\* C2: once validation has passed, a session with New = true triggers
\* OnSessionStarted exactly once, before the type-specific callback; if
\* OnSessionStarted returns an error the type-specific callback never runs and
\* that error is what ProcessRequest returns.
C2_SessionStarted ==
    (Validated /\ requestEnv.Session.New) =>
        /\ calls # <<>>
        /\ calls[1] = "OnSessionStarted"
        /\ \A i \in 2..Len(calls) : calls[i] # "OnSessionStarted"
        /\ \A i \in 1..Len(calls) : calls[i] \in TypeCallbacks => (i = 2 /\ rets[1] = NoError)
        /\ (Len(rets) >= 1 /\ rets[1] # NoError) =>
              /\ calls = <<"OnSessionStarted">>
              /\ pc = "returned"
              /\ result = [env |-> "nil", err |-> rets[1]]

\* a new session whose OnSessionStarted returned nil and whose intent callback runs
C2_Witness ==
    /\ Validated /\ requestEnv.Session.New
    /\ calls = <<"OnSessionStarted", "OnIntent">>
    /\ rets = <<NoError>>

\* a new session whose OnSessionStarted failed
C2_WitnessError ==
    /\ Validated /\ requestEnv.Session.New
    /\ rets = <<"handler error 1">>
    /\ result.err = "handler error 1"

----
IdentityErrors == {ErrAppIDEmpty, ErrRequestAppIDEmpty, ErrAppIDMismatch}

\* C3: unless the identity check is disabled, for every envelope (with a Session)
\* where the configured application identifier is empty, or the request's is
\* empty, or the two differ, ProcessRequest fails with an identity error and
\* returns no response; with matching non-empty identifiers the identity check
\* does not fail.
C3_IdentityCheck ==
    (Called /\ ~requestEnv.isNil /\ ~requestEnv.Session.isNil /\ ~alexa.IgnoreApplicationID) =>
        LET configured == alexa.ApplicationID
            requested == requestEnv.Session.ApplicationID
        IN  IF configured = "" \/ requested = "" \/ configured # requested
            THEN /\ pc = "returned"
                 /\ result.env = "nil"
                 /\ result.err \in IdentityErrors
                 /\ calls = <<>>
            ELSE result.err \notin IdentityErrors

\* both identifiers empty: rejected although they are equal
C3_Witness ==
    /\ Called /\ ~requestEnv.isNil /\ ~requestEnv.Session.isNil
    /\ ~alexa.IgnoreApplicationID
    /\ alexa.ApplicationID = "" /\ requestEnv.Session.ApplicationID = ""
    /\ result.err \in IdentityErrors

----
----
\* C5: ProcessRequest fails with the NilEnvelope error, returns no response and
\* does not crash, if the envelope is absent or its Session or its Request is
\* absent, for every setting of the two check-disable flags.
C5_NilEnvelope ==
    (Called /\ (requestEnv.isNil \/ requestEnv.Session.isNil \/ requestEnv.Request.isNil)) =>
        /\ pc = "returned"
        /\ result = [env |-> "nil", err |-> ErrRequestEnvelopeNil]

----
\* C6: an error returned by any of the four lifecycle callbacks aborts dispatch
\* at once (no further callback is invoked) and ProcessRequest returns exactly
\* that error and no response envelope, whatever the callback had written into
\* the Response.
C6_CallbackError ==
    \A i \in 1..Len(rets) :
        rets[i] # NoError =>
            /\ i = Len(rets)
            /\ Len(calls) = i
            /\ pc = "returned"
            /\ result = [env |-> "nil", err |-> rets[i]]

\* OnSessionStarted wrote the response and then failed
C6_Witness ==
    /\ calls = <<"OnSessionStarted">>
    /\ rets = <<"handler error 2">>
    /\ ~response.OutputSpeech.isNil
    /\ result = [env |-> "nil", err |-> "handler error 2"]

----
C7_InCallback ==
    pc = "inCallback" =>
        /\ requestEnv.Session.Attributes # NilMap
        /\ requestEnv.Session.Attributes \in DOMAIN heap

C7_FirstCallback ==
    (pc = "idle" /\ pc' = "inCallback") =>
        IF requestEnv.Session.Attributes = NilMap
        THEN /\ requestEnv'.Session.Attributes # NilMap
             /\ requestEnv'.Session.Attributes \notin DOMAIN heap
             /\ heap'[requestEnv'.Session.Attributes] = EmptyMap
        ELSE /\ requestEnv'.Session.Attributes = requestEnv.Session.Attributes
             /\ heap'[requestEnv'.Session.Attributes] = heap[requestEnv.Session.Attributes]

----
C8_OnReturn ==
    (pc # "returned" /\ pc' = "returned" /\ result'.err = NoError) =>
        LET session == requestEnv'.Session.Attributes
            output == responseEnv'.SessionAttributes
        IN  /\ result'.env = "responseEnv"
            /\ output # NilMap
            /\ output # session
            /\ heap'[output] = heap'[session]
            /\ pc = "inCallback" => heap'[session] = heap[session]

C8_Afterwards ==
    (pc = "returned" /\ result.err = NoError) =>
        LET session == requestEnv.Session.Attributes
            output == responseEnv.SessionAttributes
        IN  /\ heap'[session] # heap[session] => heap'[output] = heap[output]
            /\ heap'[output] # heap[output] => heap'[session] = heap[session]

\* C8: on every successful ProcessRequest the output envelope's
\* SessionAttributes holds exactly the keys and values of the session attribute
\* mapping as the invoked callbacks left it, and it is a mapping of its own:
\* writing or deleting a key of one afterwards does not change the other.
C8_AttributesCopied == [][C8_OnReturn]_vars /\ [][C8_Afterwards]_vars

\* a callback changed the value of k1 and added k2; the caller then deleted k1
\* from the session's mapping, and the output mapping still has both
C8_Witness ==
    /\ pc = "returned" /\ result.err = NoError
    /\ callerOps = 1
    /\ heap[responseEnv.SessionAttributes] = ("k1" :> "v2") @@ ("k2" :> "v1")
    /\ heap[requestEnv.Session.Attributes] = ("k2" :> "v1")

----
\* the value a callback last wrote to ShouldEndSession
Written(c) == flagSet[c] = "true"

\* at the entry of the first callback, before it has executed anything
FirstCallbackEntered == pc = "inCallback" /\ Len(calls) = 1 /\ helperCalls = 0

\* a validated launch request of a new session
NewSessionLaunch ==
    /\ Validated
    /\ requestEnv.Session.New
    /\ requestEnv.Request.Type = "LaunchRequest"

\* C9 (as stated): ShouldEndSession is true when the first callback is entered and,
\* on success, true if no invoked callback changed it; for a new session with a
\* LaunchRequest the returned flag equals whatever OnLaunch set and is TRUE IF
\* ONLAUNCH LEFT IT UNTOUCHED.
C9_EndSessionAsStated ==
    /\ FirstCallbackEntered => response.ShouldEndSession = TRUE
    /\ Succeeded =>
          /\ (\A i \in 1..Len(calls) : flagSet[calls[i]] = "untouched")
                => response.ShouldEndSession = TRUE
          /\ NewSessionLaunch =>
                response.ShouldEndSession =
                    (IF flagSet["OnLaunch"] # "untouched" THEN Written("OnLaunch") ELSE TRUE)

\* C9 (amended): ShouldEndSession is true when the first callback is entered and,
\* on success, true if no invoked callback changed it; for a new session with a
\* LaunchRequest the returned flag equals whatever OnLaunch set; if OnLaunch left
\* it untouched it equals whatever OnSessionStarted set, and is true if neither
\* callback changed it.
C9_EndSessionDefault ==
    /\ FirstCallbackEntered => response.ShouldEndSession = TRUE
    /\ Succeeded =>
          /\ (\A i \in 1..Len(calls) : flagSet[calls[i]] = "untouched")
                => response.ShouldEndSession = TRUE
          /\ NewSessionLaunch =>
                response.ShouldEndSession =
                    (IF flagSet["OnLaunch"] # "untouched" THEN Written("OnLaunch")
                     ELSE IF flagSet["OnSessionStarted"] # "untouched"
                          THEN Written("OnSessionStarted")
                          ELSE TRUE)

\* OnSessionStarted cleared the flag, OnLaunch set it again
C9_Witness ==
    /\ Succeeded /\ NewSessionLaunch
    /\ flagSet["OnSessionStarted"] = "false"
    /\ flagSet["OnLaunch"] = "true"
    /\ response.ShouldEndSession = TRUE

----
\* the directive an Add... call asks for
DirectiveOfCall(c) ==
    IF c.call = "AddAudioPlayer"
    THEN [Type |-> c.args[1], PlayBehavior |-> c.args[2],
          AudioItem |-> [Stream |-> [Token |-> c.args[3], URL |-> c.args[4],
                                     OffsetInMilliseconds |-> c.args[5]]]]
    ELSE [Type |-> c.args[1], SlotToElicit |-> c.args[2], SlotToConfirm |-> c.args[3],
          UpdatedIntent |-> c.args[4]]

C10_OnePerCall ==
    /\ Len(response.Directives) = Len(issued)
    /\ \A i \in 1..Len(issued) : response.Directives[i] = DirectiveOfCall(issued[i])

C10_EachCall ==
    IF issued' # issued
    THEN response'.Directives =
             Append(response.Directives, DirectiveOfCall(issued'[Len(issued')]))
    ELSE response'.Directives = response.Directives

\* C10: directives are appended, never replaced: after any sequence of Response
\* helper calls Directives holds exactly one entry per AddAudioPlayer /
\* AddDialogDirective call, in call order; each such call adds one entry at the
\* end and leaves the others as they were, and every other helper leaves
\* Directives unchanged.
C10_DirectivesAppended == []C10_OnePerCall /\ [][C10_EachCall]_vars

\* an audio directive, a dialog directive and a second audio directive, in that order
C10_Witness ==
    /\ pc = "standalone"
    /\ Len(response.Directives) = 3
    /\ response.Directives[1] = AudioPlayerDirective("AudioPlayer.Play", "ENQUEUE", "s2", "url", 0)
    /\ response.Directives[2] = DialogDirective("Dialog.ElicitSlot", "slot", "", NilPtr)
    /\ response.Directives[3] = AudioPlayerDirective("AudioPlayer.Play", "ENQUEUE", "s1", "url", 0)

----
TimestampErrors == {ErrTimestampParse, ErrTimestampTolerance}

\* the identity check is enabled and the envelope's Session fails it
IdentityRejected ==
    /\ ~requestEnv.isNil /\ ~requestEnv.Session.isNil
    /\ ~alexa.IgnoreApplicationID
    /\ ~(alexa.ApplicationID # "" /\ alexa.ApplicationID = requestEnv.Session.ApplicationID)

\* the timestamp check is enabled and the envelope's Request fails it
TimestampRejected ==
    /\ ~requestEnv.isNil /\ ~requestEnv.Request.isNil
    /\ ~alexa.IgnoreTimestamp
    /\ ~(requestEnv.Request.Timestamp.wellFormed
         /\ TimestampDistance <= timestampTolerance * TicksPerSecond)

\* the timestamp check is reached: the identity check is disabled, or enabled
\* and passed by the envelope's Session
TimestampCheckReached ==
    \/ alexa.IgnoreApplicationID
    \/ ~requestEnv.Session.isNil /\ ~IdentityRejected

C11_Outcome ==
    /\ (Called /\ IdentityRejected) =>
          /\ pc = "returned"
          /\ result.env = "nil"
          /\ result.err \in IdentityErrors
          /\ calls = <<>>
    /\ (Called /\ TimestampRejected /\ TimestampCheckReached) =>
          /\ pc = "returned"
          /\ result.env = "nil"
          /\ result.err \in TimestampErrors
          /\ calls = <<>>

C11_SessionUntouched ==
    (pc = "idle" /\ pc' # "idle" /\ (IdentityRejected \/ TimestampRejected)) =>
        /\ requestEnv' = requestEnv
        /\ heap' = heap
        /\ calls' = <<>>
        /\ response' = response

\* C11: a validation failure in ProcessRequest has no side effects: whenever an
\* enabled identity or timestamp check fails, no lifecycle callback (not even
\* OnSessionStarted for a new session) has been invoked and the caller's session
\* object is unchanged, an absent attribute mapping still being absent; the
\* identity check comes before the timestamp check, so an envelope failing both
\* yields the identity error.
C11_ValidationFailure == []C11_Outcome /\ [][C11_SessionUntouched]_vars

\* a new session without attributes failing both checks: the identity error came
\* back, nothing was invoked and the mapping is still absent
C11_Witness ==
    /\ Called /\ IdentityRejected /\ TimestampRejected
    /\ requestEnv.Session.New
    /\ requestEnv.Session.Attributes = NilMap
    /\ heap = <<>>
    /\ result = [env |-> "nil", err |-> ErrAppIDMismatch]
    /\ calls = <<>>

====
